---- MODULE Spec2Model ----
(***************************************************************************)
(* A model of the simulated desktop of windows-xp: the DesktopWindow base  *)
(* class with the DragManager singleton (title-bar dragging, dropdown      *)
(* menus), and the ChatApp window (session state machine, WebSocket        *)
(* connection, message log persisted in localStorage).                     *)
(*                                                                         *)
(* All handlers run on the one JavaScript event loop: every action below   *)
(* is one complete handler (with every call it makes), and the actions     *)
(* interleave arbitrarily.                                                 *)
(***************************************************************************)
EXTENDS Integers, Sequences, FiniteSets, TLC

----------------------------------------------------------------------------
(* Bounds of the model *)

\* WebSocket objects created in one run (each entry into state chat creates one)
MaxSockets == 2
\* a message is delivered only while the receiving log is shorter than this
MaxLog == 3
\* a message is sent only while fewer than this many went out on the connection
MaxSent == 1
\* a Close button is clicked only while fewer than this many closeWindow events
\* wait for the shell
MaxCloseEvents == 2
\* the control panel that a subclass of DesktopWindow supplies has at most this
\* many dropdowns
MaxDropdowns == 3

----------------------------------------------------------------------------
(* Values *)

\* JavaScript null / undefined of a string-valued field
Null == "<null>"
\* this.socket when it is undefined or null
NoSocket == 0
SocketIds == 1..MaxSockets

\* the chat-app elements and two windows of the base class (desktop-window)
ChatWins == {"chat1", "chat2"}
PlainWins == {"notes", "folder"}
Wins == ChatWins \cup PlainWins
\* DragManager.currentlyDraggedInstance when it is null
NoWindow == "<no window>"

\* 32 (taskbar height) + 28 (window title bar height), subtracted from innerHeight
TaskbarAndTitleBar == 60
\* sizes the browser viewport can have, coordinates a mouse event can carry
InnerWidths == {200}
InnerHeights == {40, 160}
ClientXs == {-10, 50, 250}
ClientYs == {-10, 50, 250}
OffsetXs == {20}
OffsetYs == {0, 10}
\* the ids a windowFocusChange event can carry: a window's, or another one
FocusIds == Wins \cup {"<other id>"}

\* what the user can type into the forms
Usernames == {"al"}
Channels == {"default_channel", "username"}
\* a whitespace-only text typed into a form field
Blank == " "
\* what the user can type into the message field
Texts == {"yo", "ok"}
\* keys of the origin's localStorage the program reads or writes
Keys == Channels \cup {Blank} \cup {"username"}
\* ChatApp.apiKey
apiKey == "eDBE76deU7L0H9mEBgxUKVR0VCnq0XBd"
\* values of the session state the program never assigns
InvalidStates == {"bogus"}
\* ids of forms inside the body other than the three the program renders
ForeignFormIds == {"other-form"}

\* inbound frames of the wire protocol, after JSON.parse
Msg1 == [type |-> "message", data |-> "hi", username |-> "bo"]
Heartbeat == [type |-> "heartbeat", data |-> "", username |-> "The Server"]
Inbound == {Msg1, Heartbeat}
\* the synthetic entry handleClose appends
DisconnectNotice ==
    [type |-> "notification", data |-> "You are disconnected!", username |-> "The Server"]

\* localStorage items: absent, a plain string, or the text JSON.stringify made of a log
NoItem == [kind |-> "none", text |-> "", log |-> <<>>]
TextItem(t) == [kind |-> "text", text |-> t, log |-> <<>>]
JSONstringify(log) == [kind |-> "json", text |-> "", log |-> log]
\* JSON.parse(item): null for a missing item, the array for a stringified log,
\* a SyntaxError for a plain string such as a remembered username
JSONparse(item) ==
    CASE item.kind = "none" -> [threw |-> FALSE, isNull |-> TRUE, value |-> <<>>]
      [] item.kind = "json" -> [threw |-> FALSE, isNull |-> FALSE, value |-> item.log]
      [] OTHER -> [threw |-> TRUE, isNull |-> TRUE, value |-> <<>>]
\* the string localStorage.getItem returns, Null when the key is absent
GetItemString(item) ==
    CASE item.kind = "none" -> Null
      [] item.kind = "text" -> item.text
      [] OTHER -> "<json text>"

\* this.messageListElement: null, or the element with its children in order
NullElement == [null |-> TRUE, children |-> <<>>]
NewElement == [null |-> FALSE, children |-> <<>>]

----------------------------------------------------------------------------
(* State *)

VARIABLES
    attached,               \* per window: "new", "attached" or "removed"
    state,                  \* ChatApp._state
    _username,              \* ChatApp._username
    channel,                \* ChatApp.channel
    messages,               \* ChatApp.messages
    messageListElement,     \* ChatApp.messageListElement
    socket,                 \* ChatApp.socket
    changeChannelDisabled,  \* class "disabled" of the change-channel choice
    body,                   \* what this.body shows
    readyState,             \* per WebSocket: "NEW" (not created yet) or its readyState
    owner,                  \* per WebSocket: the ChatApp whose handlers it calls
    localStorage,           \* the origin's localStorage
    sent,                   \* per WebSocket: the frames passed to socket.send, in order
    consoleError,           \* what the last ChatApp handler threw or console.error'ed
    openedFor,              \* history: per WebSocket, this.channel when connect() made it
    heartbeatSeen,          \* history: a heartbeat frame has been delivered
    beforeunloadListeners,  \* per chat window: the closeConnection listeners it has
                            \* registered on window 'beforeunload'
    display,                \* per window and dropdown: style.display of the content
    active,                 \* per window and dropdown: class "active" of the dropdown
    panel,                  \* display and class "active" of the dropdowns of a control
                            \* panel with several dropdowns, as createControlPanel of
                            \* a subclass of DesktopWindow can return it
    currentlyDraggedInstance, \* DragManager.currentlyDraggedInstance
    isDragging,             \* DesktopWindow.isDragging
    offsetX,                \* DesktopWindow.offsetX
    offsetY,                \* DesktopWindow.offsetY
    maxX,                   \* DesktopWindow.maxX
    maxY,                   \* DesktopWindow.maxY
    left,                   \* style.left of the window, in px
    top,                    \* style.top of the window, in px
    isFocused,              \* DesktopWindow.isFocused
    hidden,                 \* the window's style.display is 'none'
    closeWindowEvents,      \* the closeWindow events dispatched and not yet handled
    innerWidth,             \* window.innerWidth
    innerHeight             \* window.innerHeight

chatVars == <<state, _username, channel, messages, messageListElement, socket,
              changeChannelDisabled, body, readyState, owner, localStorage,
              sent, consoleError, openedFor, heartbeatSeen, beforeunloadListeners>>
menuVars == <<display, active, panel>>
dragVars == <<currentlyDraggedInstance, isDragging, offsetX, offsetY, maxX, maxY,
              left, top>>
viewVars == <<innerWidth, innerHeight>>
shellVars == <<isFocused, hidden, closeWindowEvents>>
vars == <<attached, chatVars, menuVars, dragVars, shellVars, viewVars>>

----------------------------------------------------------------------------
(* DesktopWindow: dropdown menus of the control panel *)

\* the dropdowns of a window's control panel: ChatApp.createControlPanel makes
\* the one dropdown "Settings"; DesktopWindow.createControlPanel returns null,
\* so a window of the base class has no dropdown
DropdownsOf(w) == IF w \in ChatWins THEN {"Settings"} ELSE {}
\* the excludeContent argument when no dropdown is excluded
NoDropdown == "<none>"

\* closeAllDropdowns(excludeContent), on the menu m = [display, active] of a window
closeAllDropdowns(m, excludeContent) ==
    [display |-> [d \in DOMAIN m.display |->
                    IF d # excludeContent THEN "none" ELSE m.display[d]],
     active  |-> [d \in DOMAIN m.active |->
                    IF d # excludeContent THEN FALSE ELSE m.active[d]]]

\* toggleDropdown without the call of closeAllDropdowns
toggleDropdownOnly(m, d) ==
    LET isContentVisible == m.display[d] = "block"
    IN  [display |-> [m.display EXCEPT ![d] = IF isContentVisible THEN "none" ELSE "block"],
         active  |-> [m.active EXCEPT ![d] = ~isContentVisible]]

\* toggleDropdown(activator) of dropdown d
toggleDropdown(m, d) ==
    LET isContentVisible == m.display[d] = "block"
        c == closeAllDropdowns(m, d)
    IN  [display |-> [c.display EXCEPT ![d] = IF isContentVisible THEN "none" ELSE "block"],
         active  |-> [c.active EXCEPT ![d] = ~isContentVisible]]

\* closeDropdown that hides the content and leaves the class active
closeDropdownDisplayOnly(m, d) ==
    [display |-> [m.display EXCEPT ![d] = "none"], active |-> m.active]

\* closeDropdown(dropdownContent) of dropdown d
closeDropdown(m, d) ==
    [display |-> [m.display EXCEPT ![d] = "none"],
     active  |-> [m.active EXCEPT ![d] = FALSE]]

\* the click targets inside a window: an activator, a choice (with its data-action)
\* or the content area of a dropdown, or any other place (title bar, body); in
\* a ChatApp the rest of the control panel, where handleClick listens, is a
\* target of its own
ChoicesOf(w) ==
    IF w \in ChatWins THEN {"change-username", "change-channel"} ELSE {}
ClickTargets(w) ==
    [kind : {"activator", "content"}, dropdown : DropdownsOf(w), action : {Null}]
        \cup [kind : {"choice"}, dropdown : DropdownsOf(w), action : ChoicesOf(w)]
        \cup {[kind |-> "other", dropdown |-> NoDropdown, action |-> Null]}
        \cup (IF w \in ChatWins
              THEN {[kind |-> "panel", dropdown |-> NoDropdown, action |-> Null]}
              ELSE {})

\* handleControlPanelClick(event)
handleControlPanelClick(m, target) ==
    IF target.kind = "activator" THEN toggleDropdown(m, target.dropdown)
    ELSE IF target.kind = "choice" THEN closeDropdown(m, target.dropdown)
    ELSE IF target.kind # "content" THEN closeAllDropdowns(m, NoDropdown)
    ELSE m

Menu(w) == [display |-> display[w], active |-> active[w]]
SetMenu(w, m) ==
    /\ display' = [display EXCEPT ![w] = m.display]
    /\ active' = [active EXCEPT ![w] = m.active]
    /\ UNCHANGED panel

\* a control panel of n dropdowns as it is after createControlPanel: no inline
\* display, no class active. No window of the program has more than the one
\* dropdown of ChatApp; the handlers of DesktopWindow go over
\* querySelectorAll('.dropdown') of whatever panel the subclass returns, and
\* the comment of createControlPanel shows one with two dropdowns
PanelDropdowns(n) == {"menu" \o ToString(i) : i \in 1..n}
NewPanel(n) == [display |-> [d \in PanelDropdowns(n) |-> ""],
                active  |-> [d \in PanelDropdowns(n) |-> FALSE]]
\* the click targets in a window with the panel m
PanelTargets(m) ==
    [kind : {"activator", "content", "choice"}, dropdown : DOMAIN m.display,
     action : {Null}]
        \cup {[kind |-> "panel", dropdown |-> NoDropdown, action |-> Null],
              [kind |-> "other", dropdown |-> NoDropdown, action |-> Null]}

----------------------------------------------------------------------------
(* ChatApp: the handlers, as functions on the record of the chat state *)

Ctl ==
    [state |-> state, _username |-> _username, channel |-> channel,
     messages |-> messages, messageListElement |-> messageListElement,
     socket |-> socket, changeChannelDisabled |-> changeChannelDisabled,
     body |-> body, readyState |-> readyState, owner |-> owner,
     localStorage |-> localStorage, openedFor |-> openedFor,
     heartbeatSeen |-> heartbeatSeen,
     beforeunloadListeners |-> beforeunloadListeners,
     sent |-> sent, consoleError |-> Null]

SetCtl(st) ==
    /\ heartbeatSeen' = st.heartbeatSeen
    /\ beforeunloadListeners' = st.beforeunloadListeners
    /\ state' = st.state
    /\ _username' = st._username
    /\ channel' = st.channel
    /\ messages' = st.messages
    /\ messageListElement' = st.messageListElement
    /\ socket' = st.socket
    /\ changeChannelDisabled' = st.changeChannelDisabled
    /\ body' = st.body
    /\ readyState' = st.readyState
    /\ owner' = st.owner
    /\ localStorage' = st.localStorage
    /\ openedFor' = st.openedFor
    /\ sent' = st.sent
    /\ consoleError' = st.consoleError

\* get username()
usernameStoredOnly(st, w) == GetItemString(st.localStorage["username"])

username(st, w) ==
    IF st._username[w] # Null THEN st._username[w]
    ELSE GetItemString(st.localStorage["username"])

\* set username(value): value is Null, or the record {username, rememberMe}
NullValue == [isNull |-> TRUE, username |-> Null, rememberMe |-> FALSE]
setUsername(st, w, value) ==
    IF value.isNull
    THEN [st EXCEPT !._username[w] = Null, !.localStorage["username"] = NoItem]
    ELSE IF value.rememberMe
         THEN [st EXCEPT !._username[w] = value.username,
                         !.localStorage["username"] = TextItem(value.username)]
         ELSE [st EXCEPT !._username[w] = value.username]

\* closeConnection(): closes the socket only when it is OPEN
closeConnection(st, w) ==
    IF st.socket[w] # NoSocket /\ st.readyState[st.socket[w]] = "OPEN"
    THEN [st EXCEPT !.readyState[st.socket[w]] = "CLOSING", !.socket[w] = NoSocket]
    ELSE st

\* the WebSocket that new WebSocket(...) creates next
FreeSockets(rs) == {s \in SocketIds : rs[s] = "NEW"}
NewSocket(rs) == CHOOSE s \in FreeSockets(rs) : \A t \in FreeSockets(rs) : s <= t

\* connect(): a new socket in state CONNECTING whose handlers are bound to w,
\* and one more closeConnection listener of w on window 'beforeunload'
connect(st, w) ==
    LET s == NewSocket(st.readyState)
    IN  [st EXCEPT !.socket[w] = s, !.readyState[s] = "CONNECTING", !.owner[s] = w,
                   !.openedFor[s] = st.channel[w],
                   !.beforeunloadListeners[w] = @ + 1]

\* closeConnection(event) calls event.preventDefault() when it closes a socket:
\* whether a beforeunload event ends with defaultPrevented (the page then asks
\* before it is left)
defaultPrevented(st) ==
    \E w \in ChatWins :
       /\ st.beforeunloadListeners[w] > 0
       /\ st.socket[w] # NoSocket /\ st.readyState[st.socket[w]] = "OPEN"

\* the listeners of 'beforeunload' that the calls of connect() registered: each
\* one is closeConnection bound to its controller, and after the first one of
\* a controller has run the others of that controller find no OPEN socket
beforeunload(st) ==
    LET run(a, w) == IF a.beforeunloadListeners[w] > 0 THEN closeConnection(a, w) ELSE a
    IN  run(run(st, "chat1"), "chat2")

RECURSIVE setState(_, _, _)
RECURSIVE renderBody(_, _, _)

\* renderBody without the test of this.username in state username-choice
renderBodyNoSkip(st, w, value) ==
    CASE value = "username-choice" ->
           [st EXCEPT !.changeChannelDisabled[w] = TRUE, !.body[w] = "auth-form"]
      [] value = "channel-choice" ->
           [st EXCEPT !.changeChannelDisabled[w] = TRUE, !.body[w] = "channel-form"]
      [] value = "chat" ->
           connect([st EXCEPT !.changeChannelDisabled[w] = FALSE,
                              !.messageListElement[w] = NewElement,
                              !.body[w] = "chat"], w)
      [] OTHER -> [st EXCEPT !.consoleError = "Error: Invalid state"]

\* renderBody whose branch channel-choice leaves the change-channel choice alone
renderBodyKeepChoice(st, w, value) ==
    CASE value = "username-choice" ->
           LET d == [st EXCEPT !.changeChannelDisabled[w] = TRUE]
           IN  IF username(d, w) # Null
               THEN setState(d, w, "channel-choice")
               ELSE [d EXCEPT !.body[w] = "auth-form"]
      [] value = "channel-choice" -> [st EXCEPT !.body[w] = "channel-form"]
      [] value = "chat" ->
           connect([st EXCEPT !.changeChannelDisabled[w] = FALSE,
                              !.messageListElement[w] = NewElement,
                              !.body[w] = "chat"], w)
      [] OTHER -> [st EXCEPT !.consoleError = "Error: Invalid state"]

\* renderBody(state)
renderBody(st, w, value) ==
    CASE value = "username-choice" ->
           LET d == [st EXCEPT !.changeChannelDisabled[w] = TRUE]
           IN  IF username(d, w) # Null
               THEN setState(d, w, "channel-choice")
               ELSE [d EXCEPT !.body[w] = "auth-form"]
      [] value = "channel-choice" ->
           [st EXCEPT !.changeChannelDisabled[w] = TRUE, !.body[w] = "channel-form"]
      [] value = "chat" ->
           connect([st EXCEPT !.changeChannelDisabled[w] = FALSE,
                              !.messageListElement[w] = NewElement,
                              !.body[w] = "chat"], w)
      [] OTHER -> [st EXCEPT !.consoleError = "Error: Invalid state"]

\* set state(value)
setState(st, w, value) ==
    LET a == [st EXCEPT !.state[w] = value]
        b == closeConnection(a, w)
        c == [b EXCEPT !.messageListElement[w] = NullElement]
    IN  renderBody(c, w, value)

\* createMessageElement(message): what the message list shows for one message
createMessageElement(message) ==
    IF message.username \in {"The Server", "the server", "THE SERVER"}
    THEN [class |-> "server-message", username |-> "", text |-> message.data]
    ELSE [class |-> "message", username |-> message.username, text |-> message.data]

Rendered(log) == [i \in 1..Len(log) |-> createMessageElement(log[i])]

\* handleOpen(): replays the stored log of this.channel; appendChild on a null
\* messageListElement throws after the first push
handleOpen(st, w) ==
    LET storedMessages == JSONparse(st.localStorage[st.channel[w]])
    IN  IF storedMessages.threw
        THEN [st EXCEPT !.consoleError = "SyntaxError"]
        ELSE IF storedMessages.isNull \/ storedMessages.value = <<>>
        THEN st
        ELSE IF st.messageListElement[w].null
             THEN [st EXCEPT !.messages[w] = Append(@, storedMessages.value[1]),
                             !.consoleError = "TypeError"]
             ELSE [st EXCEPT !.messages[w] = @ \o storedMessages.value,
                             !.messageListElement[w].children =
                                 @ \o Rendered(storedMessages.value)]

\* handleMessage without the test of the message type
handleMessageKeepAll(st, w, message) ==
    LET pushed == Append(st.messages[w], message)
        a == [st EXCEPT !.messages[w] = pushed,
                        !.localStorage[st.channel[w]] = JSONstringify(pushed)]
    IN  IF a.messageListElement[w].null
        THEN [a EXCEPT !.consoleError = "TypeError"]
        ELSE [a EXCEPT !.messageListElement[w].children =
                           Append(@, createMessageElement(message))]

\* handleMessage without the call of localStorage.setItem
handleMessageNoPersist(st, w, message) ==
    IF message.type # "heartbeat"
    THEN LET a == [st EXCEPT !.messages[w] = Append(@, message)]
         IN  IF a.messageListElement[w].null
             THEN [a EXCEPT !.consoleError = "TypeError"]
             ELSE [a EXCEPT !.messageListElement[w].children =
                                Append(@, createMessageElement(message))]
    ELSE st

\* handleMessage(event), message = JSON.parse(event.data)
handleMessage(st, w, message) ==
    IF message.type # "heartbeat"
    THEN LET pushed == Append(st.messages[w], message)
             a == [st EXCEPT !.messages[w] = pushed,
                             !.localStorage[st.channel[w]] = JSONstringify(pushed)]
         IN  IF a.messageListElement[w].null
             THEN [a EXCEPT !.consoleError = "TypeError"]
             ELSE [a EXCEPT !.messageListElement[w].children =
                                Append(@, createMessageElement(message))]
    ELSE st

\* handleClose()
handleClose(st, w) ==
    LET pushed == Append(st.messages[w], DisconnectNotice)
    IN  [st EXCEPT !.localStorage[st.channel[w]] = JSONstringify(pushed),
                   !.messages[w] = <<>>,
                   !.socket[w] = NoSocket]

\* handleAuthFormSubmit(form)
handleAuthFormSubmit(st, w, name, rememberMe) ==
    IF name # ""
    THEN setState(setUsername(st, w, [isNull |-> FALSE, username |-> name,
                                       rememberMe |-> rememberMe]),
                  w, "channel-choice")
    ELSE st

\* handleChannelChoiceFormSubmit without the assignment of this.channel
handleChannelChoiceFormSubmitKeep(st, w, chan) ==
    IF chan # "" THEN setState(st, w, "chat") ELSE st

\* handleChannelChoiceFormSubmit(form)
handleChannelChoiceFormSubmit(st, w, chan) ==
    IF chan # ""
    THEN setState([st EXCEPT !.channel[w] = chan], w, "chat")
    ELSE st

\* the socket of w is there and OPEN
IsOpen(st, w) == st.socket[w] # NoSocket /\ st.readyState[st.socket[w]] = "OPEN"

\* sendMessage without the test of the readyState
sendMessageAnyState(st, w, data) ==
    IF st.socket[w] = NoSocket
    THEN [st EXCEPT !.consoleError = "Cannot send message: WebSocket is not open."]
    ELSE LET message == [type |-> "message", data |-> data,
                         username |-> username(st, w), channel |-> st.channel[w],
                         key |-> apiKey]
         IN  [st EXCEPT !.sent[st.socket[w]] = Append(@, message)]

\* sendMessage(data)
sendMessage(st, w, data) ==
    IF ~IsOpen(st, w)
    THEN [st EXCEPT !.consoleError = "Cannot send message: WebSocket is not open."]
    ELSE LET message == [type |-> "message", data |-> data,
                         username |-> username(st, w), channel |-> st.channel[w],
                         key |-> apiKey]
         IN  [st EXCEPT !.sent[st.socket[w]] = Append(@, message)]

\* handleMessageFormSubmit(form)
handleMessageFormSubmit(st, w, message) ==
    IF message # "" THEN sendMessage(st, w, message) ELSE st

\* a form as handleSubmit sees it: its id and the values of its fields
Form(id, name, rememberMe, chan, message) ==
    [id |-> id, username |-> name, rememberMe |-> rememberMe, channel |-> chan,
     message |-> message]

\* handleSubmit without the default case
handleSubmitKnownOnly(st, w, form) ==
    CASE form.id = "auth-form" ->
           handleAuthFormSubmit(st, w, form.username, form.rememberMe)
      [] form.id = "channel-form" -> handleChannelChoiceFormSubmit(st, w, form.channel)
      [] form.id = "message-form" -> handleMessageFormSubmit(st, w, form.message)
      [] OTHER -> st

\* handleSubmit(event), form = event.target
handleSubmit(st, w, form) ==
    CASE form.id = "auth-form" ->
           handleAuthFormSubmit(st, w, form.username, form.rememberMe)
      [] form.id = "channel-form" -> handleChannelChoiceFormSubmit(st, w, form.channel)
      [] form.id = "message-form" -> handleMessageFormSubmit(st, w, form.message)
      [] OTHER -> [st EXCEPT !.consoleError = "Error: Unhandled form submission"]

\* handleClick(event), by the data-action of the clicked choice
handleClick(st, w, action) ==
    CASE action = "change-username" ->
           setState(setUsername(st, w, NullValue), w, "username-choice")
      [] action = "change-channel" -> setState(st, w, "channel-choice")
      [] OTHER -> st

----------------------------------------------------------------------------
(* DragManager and the title-bar drag of DesktopWindow *)

\* newX of handleMouseMoveForDrag
Min(a, b) == IF a <= b THEN a ELSE b
Max(a, b) == IF a >= b THEN a ELSE b
newX(clientX, offX, mX) == Min(clientX - offX, mX - 1)
\* newY without the upper clamp
newYNoMin(clientY, offY, mY) == Max(0, clientY - offY)
\* newY of handleMouseMoveForDrag
newY(clientY, offY, mY) == Min(Max(0, clientY - offY), mY)

\* every instance whose isDragging flag is set
AllDragging == {w \in Wins : isDragging[w]}
\* the instances handleMouseMoveForDrag moves: the registered one, while it is
\* dragging
DragTargets ==
    IF currentlyDraggedInstance # NoWindow /\ isDragging[currentlyDraggedInstance]
    THEN {currentlyDraggedInstance}
    ELSE {}

----------------------------------------------------------------------------
(* Initial state: no window has been created yet; localStorage holds what    *)
(* earlier page sessions left: possibly a remembered username, possibly the  *)
(* log of a channel.                                                         *)

EarlierLog == <<Msg1, DisconnectNotice>>

InitChat ==
    /\ state = [w \in ChatWins |-> Null]
    /\ _username = [w \in ChatWins |-> Null]
    /\ channel = [w \in ChatWins |-> "default_channel"]
    /\ messages = [w \in ChatWins |-> <<>>]
    /\ messageListElement = [w \in ChatWins |-> NullElement]
    /\ socket = [w \in ChatWins |-> NoSocket]
    /\ changeChannelDisabled = [w \in ChatWins |-> FALSE]
    /\ body = [w \in ChatWins |-> "empty"]
    /\ readyState = [s \in SocketIds |-> "NEW"]
    /\ owner = [s \in SocketIds |-> "chat1"]
    /\ openedFor = [s \in SocketIds |-> Null]
    /\ heartbeatSeen = FALSE
    /\ beforeunloadListeners = [w \in ChatWins |-> 0]
    /\ sent = [s \in SocketIds |-> <<>>]
    /\ consoleError = Null
    /\ \E name \in {NoItem} \cup {TextItem(u) : u \in Usernames} :
       \E log \in {NoItem, JSONstringify(EarlierLog)} :
          localStorage = [k \in Keys |->
                            IF k = "username" THEN name
                            ELSE IF k = "default_channel" THEN log ELSE NoItem]

InitWindows ==
    /\ attached = [w \in Wins |-> "new"]
    /\ display = [w \in Wins |-> [d \in DropdownsOf(w) |-> ""]]
    /\ active = [w \in Wins |-> [d \in DropdownsOf(w) |-> FALSE]]
    /\ currentlyDraggedInstance = NoWindow
    /\ isDragging = [w \in Wins |-> FALSE]
    /\ offsetX = [w \in Wins |-> 0]
    /\ offsetY = [w \in Wins |-> 0]
    /\ maxX = [w \in Wins |-> 0]
    /\ maxY = [w \in Wins |-> 0]
    /\ left = [w \in Wins |-> 0]
    /\ top = [w \in Wins |-> 0]
    /\ isFocused = [w \in Wins |-> FALSE]
    /\ hidden = [w \in Wins |-> FALSE]
    /\ closeWindowEvents = <<>>

InitView ==
    /\ innerWidth \in InnerWidths
    /\ innerHeight \in InnerHeights

Init == InitWindows /\ InitChat /\ InitView /\ panel = NewPanel(0)

----------------------------------------------------------------------------
(* Actions: one per handler *)

\* the field initialisers of DesktopWindow, run when the element is created
Construct(w) ==
    /\ maxX' = [maxX EXCEPT ![w] = innerWidth]
    /\ maxY' = [maxY EXCEPT ![w] = innerHeight - TaskbarAndTitleBar]
    /\ UNCHANGED <<currentlyDraggedInstance, isDragging, offsetX, offsetY, left, top>>

\* a window of another kind is created and inserted: connectedCallback()
OpenWindow(w) ==
    /\ attached[w] = "new"
    /\ attached' = [attached EXCEPT ![w] = "attached"]
    /\ Construct(w)
    /\ UNCHANGED <<chatVars, menuVars, shellVars, viewVars>>

\* document.createElement('chat-app') and its insertion: the field initialisers,
\* then connectedCallback()
OpenChat(w) ==
    /\ attached[w] = "new"
    /\ attached' = [attached EXCEPT ![w] = "attached"]
    /\ Construct(w)
    /\ LET name == GetItemString(localStorage["username"])
           made == [Ctl EXCEPT !._username[w] = name]
       IN  SetCtl(setState(made, w, "username-choice"))
    /\ UNCHANGED <<menuVars, shellVars, viewVars>>

\* the window is removed from the document: disconnectedCallback()
RemoveChat(w) ==
    /\ attached[w] = "attached"
    /\ attached' = [attached EXCEPT ![w] = "removed"]
    /\ SetCtl(closeConnection(Ctl, w))
    /\ UNCHANGED <<menuVars, dragVars, shellVars, viewVars>>

\* handleSubmit(event) of the auth-form shown in state username-choice
SubmitAuthForm(w, name, rememberMe) ==
    /\ attached[w] = "attached"
    /\ body[w] = "auth-form"
    /\ SetCtl(handleAuthFormSubmit(Ctl, w, name, rememberMe))
    /\ UNCHANGED <<attached, menuVars, dragVars, shellVars, viewVars>>

\* handleSubmit(event) of the channel-form shown in state channel-choice
SubmitChannelForm(w, chan) ==
    /\ attached[w] = "attached"
    /\ body[w] = "channel-form"
    /\ chan # "" => FreeSockets(readyState) # {}
    /\ SetCtl(handleChannelChoiceFormSubmit(Ctl, w, chan))
    /\ UNCHANGED <<attached, menuVars, dragVars, shellVars, viewVars>>

\* handleSubmit(event) of the message-form shown in state chat
SubmitMessageForm(w, text) ==
    /\ attached[w] = "attached"
    /\ body[w] = "chat"
    /\ text # "" /\ IsOpen(Ctl, w) => Len(sent[socket[w]]) < MaxSent
    /\ SetCtl(handleSubmit(Ctl, w, Form("message-form", "", FALSE, "", text)))
    /\ UNCHANGED <<attached, menuVars, dragVars, shellVars, viewVars>>

\* handleSubmit(event) of a form in the body that has another id
SubmitForeignForm(w, id) ==
    /\ attached[w] = "attached"
    /\ SetCtl(handleSubmit(Ctl, w, Form(id, "", FALSE, "", "")))
    /\ UNCHANGED <<attached, menuVars, dragVars, shellVars, viewVars>>

\* an assignment to the state property of the element by other code
AssignState(w, value) ==
    /\ attached[w] = "attached"
    /\ SetCtl(setState(Ctl, w, value))
    /\ UNCHANGED <<attached, menuVars, dragVars, shellVars, viewVars>>

\* a click inside the window: a choice or a content area can be clicked only
\* while its dropdown is shown, a choice of class disabled takes no clicks.
\* In a ChatApp a click inside the control panel reaches handleClick on the
\* control panel first and handleControlPanelClick on the shadow root next.
Click(w, target) ==
    /\ attached[w] = "attached"
    /\ ~hidden[w]
    /\ target.kind \in {"choice", "content"} => display[w][target.dropdown] = "block"
    /\ target.action = "change-channel" => ~changeChannelDisabled[w]
    /\ IF w \in ChatWins /\ target.kind # "other"
       THEN SetCtl(handleClick(Ctl, w, target.action))
       ELSE UNCHANGED chatVars
    /\ SetMenu(w, handleControlPanelClick(Menu(w), target))
    /\ UNCHANGED <<attached, dragVars, shellVars, viewVars>>

\* a click inside a window whose control panel is the one in panel: the
\* listener of the shadow root runs handleControlPanelClick
PanelClick(target) ==
    /\ target.kind \in {"choice", "content"} => panel.display[target.dropdown] = "block"
    /\ panel' = handleControlPanelClick(panel, target)
    /\ UNCHANGED <<attached, chatVars, display, active, dragVars, shellVars, viewVars>>

\* a click on a button of the title bar, as handleControlPanelClick sees it
TitleBarButton == [kind |-> "other", dropdown |-> NoDropdown, action |-> Null]

\* a handler that dispatches the event twice
handleCloseClickTwice(events, w) ==
    events \o << [type |-> "closeWindow", id |-> w], [type |-> "closeWindow", id |-> w] >>

\* handleCloseClick(): dispatches one closeWindow event with detail.id = dataId
handleCloseClick(events, w) == Append(events, [type |-> "closeWindow", id |-> w])

\* a click on the Close button: handleTitleBarClick calls handleCloseClick, then
\* the click reaches the listener of the shadow root, handleControlPanelClick
CloseClick(w) ==
    /\ attached[w] = "attached"
    /\ ~hidden[w]
    /\ Len(closeWindowEvents) < MaxCloseEvents
    /\ closeWindowEvents' = handleCloseClick(closeWindowEvents, w)
    /\ SetMenu(w, handleControlPanelClick(Menu(w), TitleBarButton))
    /\ UNCHANGED <<attached, isFocused, hidden, chatVars, dragVars, viewVars>>

\* the desktop shell, on a closeWindow event with the id of w: it removes the
\* window from the document
shellCloseWindow(att, w) == [att EXCEPT ![w] = "removed"]

\* the shell handles the oldest closeWindow event; the removal of a ChatApp
\* runs its disconnectedCallback()
ShellCloseWindow ==
    /\ closeWindowEvents # <<>>
    /\ closeWindowEvents' = Tail(closeWindowEvents)
    /\ LET w == Head(closeWindowEvents).id
       IN  IF attached[w] = "attached"
           THEN /\ attached' = shellCloseWindow(attached, w)
                /\ IF w \in ChatWins
                   THEN SetCtl(closeConnection(Ctl, w))
                   ELSE UNCHANGED chatVars
           ELSE UNCHANGED <<attached, chatVars>>
    /\ UNCHANGED <<isFocused, hidden, menuVars, dragVars, viewVars>>

\* the beforeunload event of the window, after which the user declines to
\* leave the page: the listeners that connect() has registered run, also those
\* of controllers that have been removed
BeforeUnload ==
    /\ IF \E w \in ChatWins : beforeunloadListeners[w] > 0
       THEN SetCtl(beforeunload(Ctl))
       ELSE UNCHANGED chatVars
    /\ UNCHANGED <<attached, menuVars, dragVars, shellVars, viewVars>>

\* the open event of WebSocket s
SocketOpen(s) ==
    /\ readyState[s] = "CONNECTING"
    /\ SetCtl(handleOpen([Ctl EXCEPT !.readyState[s] = "OPEN"], owner[s]))
    /\ UNCHANGED <<attached, menuVars, dragVars, shellVars, viewVars>>

\* a message event of WebSocket s
SocketMessage(s, message) ==
    /\ readyState[s] = "OPEN"
    /\ message.type # "heartbeat" => Len(messages[owner[s]]) < MaxLog
    /\ SetCtl([handleMessage(Ctl, owner[s], message) EXCEPT
                  !.heartbeatSeen = @ \/ message.type = "heartbeat"])
    /\ UNCHANGED <<attached, menuVars, dragVars, shellVars, viewVars>>

\* the close event of WebSocket s: the closing handshake of socket.close() has
\* ended, or the server or the network ended the connection (then after an
\* error event, which handleError only logs)
SocketClose(s) ==
    /\ readyState[s] \in {"CONNECTING", "OPEN", "CLOSING"}
    /\ SetCtl(handleClose([Ctl EXCEPT !.readyState[s] = "CLOSED"], owner[s]))
    /\ UNCHANGED <<attached, menuVars, dragVars, shellVars, viewVars>>

\* the browser viewport is resized
Resize(width, height) ==
    /\ innerWidth' = width
    /\ innerHeight' = height
    /\ UNCHANGED <<attached, chatVars, menuVars, dragVars, shellVars>>

\* handleTitleBarMouseDown without the test of event.target.tagName
TitleBarMouseDownAnyTarget(w, onButton, offX, offY) ==
    /\ attached[w] = "attached"
    /\ ~hidden[w]
    /\ isDragging' = [isDragging EXCEPT ![w] = TRUE]
    /\ offsetX' = [offsetX EXCEPT ![w] = offX]
    /\ offsetY' = [offsetY EXCEPT ![w] = offY]
    /\ maxX' = [maxX EXCEPT ![w] = innerWidth]
    /\ maxY' = [maxY EXCEPT ![w] = innerHeight - TaskbarAndTitleBar]
    /\ currentlyDraggedInstance' = w
    /\ UNCHANGED <<left, top, attached, chatVars, menuVars, shellVars, viewVars>>

\* handleTitleBarMouseDown(event): onButton says that event.target is a BUTTON
TitleBarMouseDown(w, onButton, offX, offY) ==
    /\ attached[w] = "attached"
    /\ ~hidden[w]
    /\ IF ~onButton
       THEN /\ isDragging' = [isDragging EXCEPT ![w] = TRUE]
            /\ offsetX' = [offsetX EXCEPT ![w] = offX]
            /\ offsetY' = [offsetY EXCEPT ![w] = offY]
            /\ maxX' = [maxX EXCEPT ![w] = innerWidth]
            /\ maxY' = [maxY EXCEPT ![w] = innerHeight - TaskbarAndTitleBar]
            /\ currentlyDraggedInstance' = w
       ELSE UNCHANGED <<isDragging, offsetX, offsetY, maxX, maxY,
                        currentlyDraggedInstance>>
    /\ UNCHANGED <<left, top, attached, chatVars, menuVars, shellVars, viewVars>>

\* handleMouseMoveForDrag(event), on every mousemove of the page
MouseMove(clientX, clientY) ==
    /\ left' = [w \in Wins |->
                  IF w \in DragTargets THEN newX(clientX, offsetX[w], maxX[w])
                  ELSE left[w]]
    /\ top' = [w \in Wins |->
                 IF w \in DragTargets THEN newY(clientY, offsetY[w], maxY[w])
                 ELSE top[w]]
    /\ UNCHANGED <<currentlyDraggedInstance, isDragging, offsetX, offsetY, maxX, maxY,
                   attached, chatVars, menuVars, shellVars, viewVars>>

\* stopDrag that resets the flag of the instance and keeps it registered
stopDragKeepTarget ==
    /\ IF currentlyDraggedInstance # NoWindow
       THEN isDragging' = [isDragging EXCEPT ![currentlyDraggedInstance] = FALSE]
       ELSE UNCHANGED isDragging
    /\ UNCHANGED <<currentlyDraggedInstance, offsetX, offsetY, maxX, maxY, left, top,
                   attached, chatVars, menuVars, shellVars, viewVars>>

\* stopDrag(), on the mouseup and the mouseout of the page
stopDrag ==
    /\ IF currentlyDraggedInstance # NoWindow
       THEN /\ isDragging' = [isDragging EXCEPT ![currentlyDraggedInstance] = FALSE]
            /\ currentlyDraggedInstance' = NoWindow
       ELSE UNCHANGED <<isDragging, currentlyDraggedInstance>>
    /\ UNCHANGED <<offsetX, offsetY, maxX, maxY, left, top,
                   attached, chatVars, menuVars, shellVars, viewVars>>
MouseUp == stopDrag
MouseOut == stopDrag

----------------------------------------------------------------------------
(* Spec: one chat window and its connections, in a viewport of one size *)

ChatNext(w) ==
    \/ OpenChat(w)
    \/ RemoveChat(w)
    \/ \E name \in Usernames \cup {""}, rememberMe \in BOOLEAN :
          SubmitAuthForm(w, name, rememberMe)
    \/ \E chan \in Channels \cup {""} : SubmitChannelForm(w, chan)
    \/ \E target \in ClickTargets(w) : Click(w, target)

SocketNext ==
    \/ \E s \in SocketIds : SocketOpen(s)
    \/ \E s \in SocketIds, message \in Inbound : SocketMessage(s, message)
    \/ \E s \in SocketIds : SocketClose(s)
    \/ BeforeUnload

Next == ChatNext("chat1") \/ SocketNext

\* one chat window on a desktop-sized viewport
InitSpec == Init /\ innerWidth = 200 /\ innerHeight = 160
Spec == InitSpec /\ [][Next]_vars

----------------------------------------------------------------------------
(* SpecForms: one chat window with everything that can be submitted to it,  *)
(* blank texts included, and its connections opening and closing; nothing   *)
(* is stored beforehand and no message arrives                              *)

FormsNext ==
    \/ OpenChat("chat1")
    \/ \E name \in Usernames \cup {Blank, ""}, rememberMe \in BOOLEAN :
          SubmitAuthForm("chat1", name, rememberMe)
    \/ \E chan \in {"default_channel", Blank, ""} : SubmitChannelForm("chat1", chan)
    \/ \E text \in {"yo", Blank, ""} : SubmitMessageForm("chat1", text)
    \/ \E target \in ClickTargets("chat1") : Click("chat1", target)
    \/ \E s \in SocketIds : SocketOpen(s)
    \/ \E s \in SocketIds : SocketClose(s)
    \/ BeforeUnload

InitForms ==
    Init /\ localStorage = [k \in Keys |-> NoItem] /\ innerWidth = 200 /\ innerHeight = 160
SpecForms == InitForms /\ [][FormsNext]_vars

----------------------------------------------------------------------------
(* SpecEntry: a chat window with its connections opening and closing, and a *)
(* second chat window that is inserted at any moment of the first one's     *)
(* session; no message arrives                                              *)

EntryNext ==
    \/ ChatNext("chat1")
    \/ OpenChat("chat2")
    \/ \E s \in SocketIds : SocketOpen(s)
    \/ \E s \in SocketIds : SocketClose(s)
    \/ BeforeUnload

SpecEntry == InitSpec /\ [][EntryNext]_vars

----------------------------------------------------------------------------
(* SpecSend: one chat window of one user on one channel: messages typed and *)
(* submitted at any time, connections opening and closing, and the uses of  *)
(* the element that the program itself never makes (another form in the     *)
(* body, an assignment of an unknown state)                                 *)

SendNext ==
    \/ OpenChat("chat1")
    \/ \E name \in Usernames : SubmitAuthForm("chat1", name, FALSE)
    \/ SubmitChannelForm("chat1", "default_channel")
    \/ \E text \in Texts \cup {""} : SubmitMessageForm("chat1", text)
    \/ \E id \in ForeignFormIds : SubmitForeignForm("chat1", id)
    \/ \E value \in InvalidStates : AssignState("chat1", value)
    \/ \E target \in ClickTargets("chat1") : Click("chat1", target)
    \/ \E s \in SocketIds : SocketOpen(s)
    \/ \E s \in SocketIds : SocketClose(s)
    \/ BeforeUnload

SpecSend == InitForms /\ [][SendNext]_vars

----------------------------------------------------------------------------
(* SpecInbox: one chat window of one user that joins and leaves the         *)
(* channels while messages and heartbeats arrive on its connections         *)

InboxNext ==
    \/ OpenChat("chat1")
    \/ \E name \in Usernames : SubmitAuthForm("chat1", name, FALSE)
    \/ \E chan \in Channels : SubmitChannelForm("chat1", chan)
    \/ \E target \in {t \in ClickTargets("chat1") : t.kind \in {"activator", "choice"}} :
          Click("chat1", target)
    \/ \E s \in SocketIds : SocketOpen(s)
    \/ \E s \in SocketIds, message \in Inbound : SocketMessage(s, message)
    \/ \E s \in SocketIds : SocketClose(s)
    \/ BeforeUnload

SpecInbox == InitForms /\ [][InboxNext]_vars

----------------------------------------------------------------------------
(* SpecTwo: two chat windows of one origin, with or without a remembered    *)
(* identity: each one signs in, joins the channel and changes its username  *)
(* or its channel through its menu at any time, while the first one sends   *)
(* messages; no connection is closed by the server                          *)

TwoNext ==
    \/ \E w \in ChatWins : OpenChat(w)
    \/ \E w \in ChatWins, name \in Usernames, rememberMe \in BOOLEAN :
          SubmitAuthForm(w, name, rememberMe)
    \/ \E w \in ChatWins : SubmitChannelForm(w, "default_channel")
    \/ \E text \in {"yo"} : SubmitMessageForm("chat1", text)
    \/ \E w \in ChatWins :
          \E target \in {t \in ClickTargets(w) : t.kind \in {"activator", "choice"}} :
             Click(w, target)
    \/ \E s \in SocketIds : SocketOpen(s)
    \/ BeforeUnload

InitTwo == InitSpec /\ localStorage["default_channel"] = NoItem
SpecTwo == InitTwo /\ [][TwoNext]_vars

----------------------------------------------------------------------------
(* SpecDrag: the two plain windows, the mouse and the viewport *)

DragNext ==
    \/ \E w \in PlainWins : OpenWindow(w)
    \/ \E width \in InnerWidths, height \in InnerHeights : Resize(width, height)
    \/ \E w \in PlainWins, onButton \in BOOLEAN, offX \in OffsetXs, offY \in OffsetYs :
          TitleBarMouseDown(w, onButton, offX, offY)
    \/ \E clientX \in ClientXs, clientY \in ClientYs : MouseMove(clientX, clientY)
    \/ MouseUp
    \/ MouseOut

NoStorage == localStorage = [k \in Keys |-> NoItem]
InitDrag == Init /\ NoStorage
SpecDrag == InitDrag /\ [][DragNext]_vars

----------------------------------------------------------------------------
(* SpecWindows: the two windows of the base class: clicks, title bar     *)
(* (drag, minimize, close), focus                                        *)

\* a click on the Minimize button: handleTitleBarClick calls
\* handleMinimizeClick, then the click reaches handleControlPanelClick
MinimizeClick(w) ==
    /\ attached[w] = "attached"
    /\ ~hidden[w]
    /\ hidden' = [hidden EXCEPT ![w] = TRUE]
    /\ SetMenu(w, handleControlPanelClick(Menu(w), TitleBarButton))
    /\ UNCHANGED <<isFocused, closeWindowEvents, attached, chatVars, dragVars,
                   viewVars>>

\* handleFocusChange that only ever sets the flag
FocusChangeSetOnly(focusedWindowId) ==
    /\ isFocused' = [w \in Wins |->
                       IF attached[w] # "new" /\ w = focusedWindowId THEN TRUE
                       ELSE isFocused[w]]
    /\ UNCHANGED <<hidden, closeWindowEvents, attached, chatVars, menuVars, dragVars,
                   viewVars>>

\* handleFocusChange(event) of every window that listens: a windowFocusChange
\* event carrying focusedWindowId
FocusChange(focusedWindowId) ==
    /\ isFocused' = [w \in Wins |->
                       IF attached[w] # "new" THEN w = focusedWindowId ELSE isFocused[w]]
    /\ UNCHANGED <<hidden, closeWindowEvents, attached, chatVars, menuVars, dragVars,
                   viewVars>>

WindowsNext ==
    \/ \E w \in PlainWins : OpenWindow(w)
    \/ \E w \in PlainWins : \E target \in ClickTargets(w) : Click(w, target)
    \/ \E w \in PlainWins : MinimizeClick(w)
    \/ \E focusedWindowId \in FocusIds : FocusChange(focusedWindowId)
    \/ \E w \in PlainWins, offX \in OffsetXs : TitleBarMouseDown(w, FALSE, offX, 0)
    \/ \E clientX \in {50}, clientY \in {50} : MouseMove(clientX, clientY)
    \/ MouseUp
    \/ \E w \in PlainWins : CloseClick(w)
    \/ ShellCloseWindow

InitShell == Init /\ NoStorage /\ innerHeight = 160
SpecWindows == InitShell /\ [][WindowsNext]_vars

----------------------------------------------------------------------------
(* SpecMenu: two chat windows whose Settings dropdown is used: clicks on    *)
(* its activator, its choices and its content area, on the rest of the      *)
(* control panel and elsewhere in the window, and on the Minimize and Close *)
(* buttons; the first window also signs in and joins the channel, which     *)
(* enables its choice Change Channel                                        *)

MenuNext ==
    \/ \E w \in ChatWins : OpenChat(w)
    \/ \E name \in Usernames : SubmitAuthForm("chat1", name, FALSE)
    \/ SubmitChannelForm("chat1", "default_channel")
    \/ \E w \in ChatWins : \E target \in ClickTargets(w) : Click(w, target)
    \/ \E w \in ChatWins : MinimizeClick(w)
    \/ \E w \in ChatWins : CloseClick(w)
    \/ ShellCloseWindow

SpecMenu == InitForms /\ [][MenuNext]_vars

----------------------------------------------------------------------------
(* SpecPanel: the clicks of SpecMenu on the two chat windows, and the same  *)
(* click handlers of DesktopWindow on a control panel of one to             *)
(* MaxDropdowns dropdowns                                                   *)

PanelNext ==
    \/ MenuNext
    \/ \E target \in PanelTargets(panel) : PanelClick(target)

InitPanel ==
    /\ InitWindows /\ InitChat
    /\ localStorage = [k \in Keys |-> NoItem] /\ innerWidth = 200 /\ innerHeight = 160
    /\ panel \in {NewPanel(n) : n \in 1..MaxDropdowns}

SpecPanel == InitPanel /\ [][PanelNext]_vars

----------------------------------------------------------------------------
(* SpecClose: a chat window that is opened, moved, focused, used through    *)
(* its menu and closed with the Close button, next to a plain window that   *)
(* is opened and closed; the shell handles the closeWindow events later     *)

CloseWins == {"chat1", "notes"}

CloseNext ==
    \/ OpenWindow("notes")
    \/ OpenChat("chat1")
    \/ \E name \in Usernames : SubmitAuthForm("chat1", name, FALSE)
    \/ SubmitChannelForm("chat1", "default_channel")
    \/ \E s \in SocketIds : SocketOpen(s)
    \/ \E target \in ClickTargets("chat1") : Click("chat1", target)
    \/ \E focusedWindowId \in CloseWins : FocusChange(focusedWindowId)
    \/ \E offX \in OffsetXs : TitleBarMouseDown("chat1", FALSE, offX, 0)
    \/ \E clientX \in {50}, clientY \in {50} : MouseMove(clientX, clientY)
    \/ \E w \in CloseWins : CloseClick(w)
    \/ ShellCloseWindow

SpecClose == InitForms /\ [][CloseNext]_vars

----------------------------------------------------------------------------
(* Claims about the connection of a chat window (Spec) *)

\* the connections of w that are connecting or open
Live(w) == {s \in SocketIds : owner[s] = w /\ readyState[s] \in {"CONNECTING", "OPEN"}}
LiveNext(w) ==
    {s \in SocketIds : owner'[s] = w /\ readyState'[s] \in {"CONNECTING", "OPEN"}}

\* C1: at no instant does a chat controller have two connections that are
\* connecting or open: a new connection is made only after every earlier one
\* has been torn down.
C1_TeardownBeforeConnect ==
    \A w \in ChatWins : Cardinality(Live(w)) <= 1

\* C2: the step that leaves state chat, and the step that removes the chat
\* window, close the connection whatever its state: after the step the
\* controller owns no connection that is connecting or open.
C2_LeavingChatCloses ==
    [][\A w \in ChatWins :
          \/ state[w] = "chat" /\ state'[w] # "chat"
          \/ attached[w] = "attached" /\ attached'[w] = "removed"
          => LiveNext(w) = {}]_vars

\* s is an earlier connection of its controller: the controller has made a
\* newer connection since, and holds it
Earlier(s) == socket[owner[s]] # NoSocket /\ socket[owner[s]] > s

\* C3: once a new connection has been established, no open, message or close
\* callback of an earlier connection changes the controller's in-memory log or
\* its connection reference.
C3_LateCallbacksInert ==
    [][\A s \in SocketIds :
          /\ Earlier(s)
          /\ \/ SocketOpen(s)
             \/ \E message \in Inbound : SocketMessage(s, message)
             \/ SocketClose(s)
          => /\ messages'[owner[s]] = messages[owner[s]]
             /\ socket'[owner[s]] = socket[owner[s]]]_vars

\* the stored log of a channel, empty when there is none
StoredLog(ls, chan) == JSONparse(ls[chan]).value

\* the earlier connections of s's controller to the same channel that have been
\* disconnected: closed by closeConnection() (CLOSING) or closed for good (CLOSED)
Disconnected(s) ==
    {t \in SocketIds : /\ t < s
                       /\ owner[t] = owner[s]
                       /\ openedFor[t] = openedFor[s]
                       /\ readyState[t] \in {"CLOSING", "CLOSED"}}

\* C4: round trip: when the reconnect to a channel opens, after an earlier
\* connection to that channel has been disconnected, the in-memory log equals
\* the persisted log of the channel (nothing duplicated) and the render target
\* shows that log; once the earlier connection is closed for good the log ends
\* with the disconnect notice.
C4_RoundTrip ==
    [][\A s \in SocketIds :
          socket[owner[s]] = s /\ Disconnected(s) # {} /\ SocketOpen(s)
          => LET w == owner[s]
                 log == StoredLog(localStorage', channel'[w])
             IN  /\ messages'[w] = log
                 /\ messageListElement'[w].children = Rendered(log)
                 /\ (\E t \in Disconnected(s) : readyState[t] = "CLOSED")
                       => log # <<>> /\ log[Len(log)] = DisconnectNotice]_vars

\* C5: no heartbeat is ever present in an in-memory log, in a persisted log or
\* in a render target.
HasHeartbeat(log) == \E i \in 1..Len(log) : log[i].type = "heartbeat"
C5_NoHeartbeatKept ==
    /\ \A w \in ChatWins : ~HasHeartbeat(messages[w])
    /\ \A k \in Keys : ~HasHeartbeat(localStorage[k].log)
    /\ \A w \in ChatWins :
          \A i \in 1..Len(messageListElement[w].children) :
             messageListElement[w].children[i] # createMessageElement(Heartbeat)
\* a heartbeat was delivered to a controller that has received and shows messages
C5_Witness ==
    /\ heartbeatSeen
    /\ \E w \in ChatWins :
          /\ Len(messages[w]) >= 2
          /\ Len(messageListElement[w].children) >= 2
          /\ localStorage[channel[w]].log = messages[w]

\* C9: from state channel-choice, submitting a non-empty channel name c yields
\* state chat with channel = c, whatever preceded it.
C9_ChannelSubmitDeterministic ==
    [][\A w \in ChatWins, chan \in Channels :
          state[w] = "channel-choice" /\ SubmitChannelForm(w, chan)
          => state'[w] = "chat" /\ channel'[w] = chan]_vars
\* a second channel submission, for another channel than the first
C9_Witness ==
    \E w \in ChatWins :
       /\ state[w] = "chat"
       /\ channel[w] = "username"
       /\ socket[w] = 2
       /\ openedFor = <<"default_channel", "username">>

\* C10: a non-empty username submission moves the session to channel-choice and
\* writes the durable "username" entry only when remember is set: a submission
\* without remember leaves the entry as it is, and the entry comes into being
\* only by a submission with remember.
C10_IdentityOnlyWhenRemembered ==
    [][/\ \A w \in ChatWins, name \in Usernames, rememberMe \in BOOLEAN :
             SubmitAuthForm(w, name, rememberMe)
             => /\ state'[w] = "channel-choice"
                /\ ~rememberMe => localStorage'["username"] = localStorage["username"]
       /\ localStorage["username"] = NoItem /\ localStorage'["username"] # NoItem
             => \E w \in ChatWins, name \in Usernames :
                   SubmitAuthForm(w, name, TRUE)]_vars

----------------------------------------------------------------------------
(* Claims about dragging (SpecDrag) *)

\* a pointer move that drags window w
DragMove(w) ==
    /\ w \in DragTargets
    /\ \E clientX \in ClientXs, clientY \in ClientYs : MouseMove(clientX, clientY)

\* C6 as stated: each pointer move during an active drag leaves the dragged
\* window at x <= maxX - 1 and 0 <= y <= maxY.
C6_Original ==
    [][\A w \in Wins :
          DragMove(w)
          => /\ left'[w] <= maxX[w] - 1
             /\ 0 <= top'[w]
             /\ top'[w] <= maxY[w]]_vars

\* C6, amended: each pointer move during an active drag leaves the dragged
\* window at x <= maxX - 1 and y <= maxY, and at y >= 0 whenever maxY >= 0; with
\* maxY < 0 (a viewport lower than 60 px) it leaves it at y = maxY.
C6_DragPositionBounds ==
    [][\A w \in Wins :
          DragMove(w)
          => /\ left'[w] <= maxX[w] - 1
             /\ top'[w] <= maxY[w]
             /\ maxY[w] >= 0 => 0 <= top'[w]
             /\ maxY[w] < 0 => top'[w] = maxY[w]]_vars
\* a dragged window moved to both clamps, in a viewport lower than 60 px
C6_Witness ==
    \E w \in Wins :
       /\ w \in DragTargets
       /\ maxY[w] < 0
       /\ top[w] = maxY[w]
       /\ left[w] = maxX[w] - 1

\* C7: a pointer move changes the position of at most one window, the one
\* registered with the drag coordinator.
C7_OneDragTarget ==
    [][\A w \in Wins :
          left'[w] # left[w] \/ top'[w] # top[w] => w = currentlyDraggedInstance]_vars
\* two windows have their dragging flag set, the registered one has been moved
\* and the other has not
C7_Witness ==
    \E w, v \in Wins :
       /\ w # v
       /\ isDragging[w] /\ isDragging[v]
       /\ currentlyDraggedInstance = v
       /\ left[v] # 0
       /\ left[w] = 0 /\ top[w] = 0

----------------------------------------------------------------------------
(* Claims about the control panel *)

OpenDropdowns(w) == {d \in DropdownsOf(w) : display[w][d] = "block"}

OpenInPanel == {d \in DOMAIN panel.display : panel.display[d] = "block"}

\* C8: in every reachable state at most one dropdown of a window is open: of
\* each window of the program, and of a window whose control panel has
\* several dropdowns.
C8_OneDropdownOpen ==
    /\ \A w \in Wins : Cardinality(OpenDropdowns(w)) <= 1
    /\ Cardinality(OpenInPanel) <= 1
\* in a panel of several dropdowns one is open and marked active and every
\* other one has been closed by a handler, while the Settings dropdown of a
\* chat window is open
C8_Witness ==
    /\ Cardinality(DOMAIN panel.display) >= 2
    /\ \E d \in DOMAIN panel.display :
          /\ panel.display[d] = "block" /\ panel.active[d]
          /\ \A e \in DOMAIN panel.display \ {d} :
                panel.display[e] = "none" /\ ~panel.active[e]
    /\ display["chat1"]["Settings"] = "block"

\* C26: a click on the activator of a closed dropdown leaves exactly that
\* dropdown open; a click on the activator of an open dropdown leaves no
\* dropdown open; a click on a choice closes the dropdown that contains it; a
\* click anywhere else in the window, a title-bar button included, except on
\* the content area of a dropdown, closes all dropdowns; and in every
\* reachable state a dropdown is marked active exactly when its content is
\* shown.
C26_DropdownProtocol ==
    /\ [][\A w \in Wins :
             /\ \A target \in ClickTargets(w) :
                   Click(w, target)
                   => LET d == target.dropdown
                      IN  /\ target.kind = "activator" /\ display[w][d] # "block"
                             => OpenDropdowns(w)' = {d}
                          /\ target.kind = "activator" /\ display[w][d] = "block"
                             => OpenDropdowns(w)' = {}
                          /\ target.kind = "choice" => d \notin OpenDropdowns(w)'
                          /\ target.kind \in {"other", "panel"}
                             => OpenDropdowns(w)' = {}
             /\ MinimizeClick(w) \/ CloseClick(w) => OpenDropdowns(w)' = {}]_vars
    /\ [](\A w \in Wins : \A d \in DropdownsOf(w) :
             active[w][d] <=> display[w][d] = "block")
\* the Settings dropdown of the first chat window, which is in the chat, is
\* open and marked active, and the one of the second chat window has been
\* closed by the click on its Minimize button
C26_Witness ==
    /\ state["chat1"] = "chat"
    /\ display["chat1"]["Settings"] = "block" /\ active["chat1"]["Settings"]
    /\ hidden["chat2"]
    /\ display["chat2"]["Settings"] = "none" /\ ~active["chat2"]["Settings"]

----------------------------------------------------------------------------
(* Claims about the session and the stored logs of a chat window (Spec) *)

\* the click on the choice Change Username of w's Settings dropdown
ChangeUsernameClick(w) ==
    \E d \in DropdownsOf(w) :
       Click(w, [kind |-> "choice", dropdown |-> d, action |-> "change-username"])

\* C11: the change-username action taken in state chat ends with the connection
\* torn down, the render target reference cleared, the in-memory and the
\* persisted username removed, and the session resting in username-choice.
C11_ChangeUsernameInChat ==
    [][\A w \in ChatWins :
          state[w] = "chat" /\ ChangeUsernameClick(w)
          => /\ LiveNext(w) = {}
             /\ socket'[w] = NoSocket
             /\ messageListElement'[w] = NullElement
             /\ _username'[w] = Null
             /\ localStorage'["username"] = NoItem
             /\ state'[w] = "username-choice"
             /\ body'[w] = "auth-form"]_vars

IsPrefix(a, b) == Len(a) <= Len(b) /\ SubSeq(b, 1, Len(a)) = a

\* C15: a channel's persisted log is append-only: every write to a channel's
\* storage entry has the entry's previous content as a prefix.
C15_StoredLogAppendOnly ==
    [][\A chan \in Channels :
          IsPrefix(StoredLog(localStorage, chan), StoredLog(localStorage', chan))]_vars

\* a step in which w enters state username-choice: the window is inserted, or
\* the change-username action is taken
EntersUsernameChoice(w) == OpenChat(w) \/ ChangeUsernameClick(w)

\* C19: auto-skip: whenever the session enters username-choice while a username
\* exists (in memory or persisted), it is in channel-choice at the end of the
\* same step and the username form has not been rendered; it rests in
\* username-choice, showing the username form, only when no username exists.
C19_AutoSkip ==
    [][\A w \in ChatWins :
          EntersUsernameChoice(w)
          => IF _username'[w] # Null \/ localStorage'["username"] # NoItem
             THEN state'[w] = "channel-choice" /\ body'[w] = "channel-form"
             ELSE state'[w] = "username-choice" /\ body'[w] = "auth-form"]_vars
\* the second window was inserted while the first one was in chat with a
\* username: it shows the channel form, and nothing has been submitted to it
C19_Witness ==
    /\ state["chat1"] = "chat"
    /\ attached["chat2"] = "attached"
    /\ state["chat2"] = "channel-choice"
    /\ body["chat2"] = "channel-form"
    /\ _username["chat2"] = "al"

\* C20: the close callback of a connection appends exactly one disconnect
\* notice to the log, persists the log with the notice under the channel of the
\* connection that closed, and leaves the in-memory log empty and the
\* connection reference absent.
C20_CloseUnderOwnChannel ==
    [][\A s \in SocketIds :
          SocketClose(s)
          => LET w == owner[s]
             IN  /\ localStorage'[openedFor[s]] =
                        JSONstringify(Append(messages[w], DisconnectNotice))
                 /\ messages'[w] = <<>>
                 /\ socket'[w] = NoSocket]_vars

----------------------------------------------------------------------------
(* Claims about drag sessions and focus (SpecDrag, SpecWindows) *)

\* C16: starting a drag on a window cancels the session of any other window:
\* in every reachable state a window whose dragging flag is set is the
\* coordinator's current target, so at most one window is dragging.
C16_NewDragCancelsPrior ==
    \A w \in Wins : isDragging[w] => currentlyDraggedInstance = w

\* C18: initially no window is focused; the focused flags change only by a
\* windowFocusChange broadcast, after which the flag of each subscribed window
\* equals (its id = focusedWindowId); at most one window is focused in every
\* reachable state.
C18_FocusFollowsBroadcast ==
    /\ \A w \in Wins : ~isFocused[w]
    /\ [][/\ isFocused' # isFocused => \E f \in FocusIds : FocusChange(f)
          /\ \A f \in FocusIds :
                FocusChange(f)
                => \A w \in Wins : attached[w] # "new" => isFocused'[w] = (w = f)]_vars
    /\ [](Cardinality({w \in Wins : isFocused[w]}) <= 1)
\* the focus has moved from one subscribed window to the other
C18_Witness ==
    /\ attached["notes"] = "attached" /\ attached["folder"] = "attached"
    /\ isFocused["folder"] /\ ~isFocused["notes"]
    /\ hidden["notes"]

----------------------------------------------------------------------------
(* Claims about what is submitted to a chat window (SpecSend, SpecForms) *)

\* C12: a message submitted while the connection is absent or not open
\* transmits nothing and changes no state (it only logs a diagnostic), and it is
\* never queued: a frame goes out only in the step of a submission made while
\* the connection is open, and it carries the text of that submission.
C12_SendRefusedNotQueued ==
    [][/\ \A w \in ChatWins, text \in Texts :
             SubmitMessageForm(w, text) /\ ~IsOpen(Ctl, w)
             => /\ consoleError' = "Cannot send message: WebSocket is not open."
                /\ UNCHANGED <<attached, state, _username, channel, messages,
                               messageListElement, socket, changeChannelDisabled,
                               body, readyState, owner, localStorage, sent,
                               menuVars, dragVars, shellVars, viewVars>>
       /\ sent' # sent
             => \E w \in ChatWins, text \in Texts :
                   /\ SubmitMessageForm(w, text)
                   /\ IsOpen(Ctl, w)
                   /\ Len(sent'[socket[w]]) = Len(sent[socket[w]]) + 1
                   /\ sent'[socket[w]][Len(sent'[socket[w]])].data = text
                   /\ \A s \in SocketIds \ {socket[w]} : sent'[s] = sent[s]]_vars
\* a message went out on the first connection, and a message submitted while
\* the second connection was still connecting has been refused
C12_Witness ==
    \E w \in ChatWins :
       /\ consoleError = "Cannot send message: WebSocket is not open."
       /\ socket[w] = 2
       /\ readyState[2] = "CONNECTING"
       /\ Len(sent[1]) = 1
       /\ sent[2] = <<>>

\* C13: an empty or blank (whitespace-only) submission of a username, a channel
\* name or a message causes no state transition, no change of username or
\* channel, nothing stored and nothing sent on the transport.
C13_BlankRejected ==
    [][\A w \in ChatWins, blank \in {"", Blank} :
          \/ \E rememberMe \in BOOLEAN : SubmitAuthForm(w, blank, rememberMe)
          \/ SubmitChannelForm(w, blank)
          \/ SubmitMessageForm(w, blank)
          => UNCHANGED <<state, _username, channel, socket, readyState, localStorage,
                         sent>>]_vars

\* C14: assigning the session state a value outside {username-choice,
\* channel-choice, chat}, and submitting a form whose id is none of auth-form,
\* channel-form, message-form, each throw an error in that step and show the
\* user nothing.
C14_InvalidInputsThrow ==
    [][\A w \in ChatWins :
          /\ \A value \in InvalidStates :
                AssignState(w, value)
                => consoleError' = "Error: Invalid state" /\ body'[w] = body[w]
          /\ \A id \in ForeignFormIds :
                SubmitForeignForm(w, id)
                => /\ consoleError' = "Error: Unhandled form submission"
                   /\ body'[w] = body[w]
                   /\ state'[w] = state[w]]_vars
\* an unknown state has been assigned while the chat was shown
C14_Witness ==
    \E w \in ChatWins :
       /\ state[w] \in InvalidStates
       /\ consoleError = "Error: Invalid state"
       /\ body[w] = "chat"

\* C17: a drag session is destroyed when its window is closed: the drag
\* coordinator does not reference a window that has been closed and removed.
C17_CloseEndsDrag ==
    \A w \in Wins : attached[w] = "removed" => currentlyDraggedInstance # w

----------------------------------------------------------------------------
(* Claims about the callbacks of a connection and the chat state (Spec,     *)
(* SpecSend)                                                                *)

\* C21: the open callback replays the persisted log of the channel into the
\* render target in stored order and writes nothing to storage.
C21_OpenReplaysOnly ==
    [][\A s \in SocketIds :
          SocketOpen(s)
          => LET w == owner[s]
             IN  /\ localStorage' = localStorage
                 /\ messageListElement'[w].children =
                        messageListElement[w].children
                           \o Rendered(StoredLog(localStorage, channel[w]))]_vars

\* C22: once the chat window has been opened, the change-channel control is
\* enabled if and only if the session state is chat, in every state that the
\* forms, the Settings choices and the connection events lead to.
C22_ChangeChannelOnlyInChat ==
    \A w \in ChatWins :
       attached[w] # "new" => (~changeChannelDisabled[w] <=> state[w] = "chat")

\* the first chat window has been in the chat (it has opened a connection) and
\* is back in channel-choice with the control disabled again, while the second
\* one rests in a state before the chat with the control disabled
C22_Witness ==
    /\ state["chat1"] = "channel-choice" /\ changeChannelDisabled["chat1"]
    /\ beforeunloadListeners["chat1"] > 0
    /\ attached["chat2"] = "attached" /\ state["chat2"] # "chat"
    /\ changeChannelDisabled["chat2"]

\* C28: in every reachable state where the session state of an inserted chat
\* window is chat, the controller owns exactly one connection that is
\* connecting or open.
C28_OneConnectionInChat ==
    \A w \in ChatWins :
       attached[w] = "attached" /\ state[w] = "chat" => Cardinality(Live(w)) = 1

\* C29: channel isolation: a message or close callback of a connection writes
\* only the storage entry of the channel the connection was opened for.
C29_ChannelIsolation ==
    [][\A s \in SocketIds, chan \in Channels :
          /\ \/ \E message \in Inbound : SocketMessage(s, message)
             \/ SocketClose(s)
          /\ localStorage'[chan] # localStorage[chan]
          => openedFor[s] = chan]_vars

----------------------------------------------------------------------------
(* Claims about the end and the start of a drag (SpecDrag) *)

\* C24: after any pointer-up or pointer-leave event the drag coordinator has
\* no target; a pointer move with no target changes nothing; and the
\* coordinator gets a target again only by a pointer-down on a non-button title
\* area.
C24_EndDragUnconditional ==
    [][/\ MouseUp \/ MouseOut => currentlyDraggedInstance' = NoWindow
       /\ /\ currentlyDraggedInstance = NoWindow
          /\ \E clientX \in ClientXs, clientY \in ClientYs : MouseMove(clientX, clientY)
          => left' = left /\ top' = top
       /\ currentlyDraggedInstance = NoWindow /\ currentlyDraggedInstance' # NoWindow
          => \E w \in Wins, offX \in OffsetXs, offY \in OffsetYs :
                TitleBarMouseDown(w, FALSE, offX, offY)]_vars
\* a drag that moved a window has ended while the dragging flag of another
\* window was still set
C24_Witness ==
    /\ currentlyDraggedInstance = NoWindow
    /\ \E w, v \in Wins : w # v /\ isDragging[w] /\ ~isDragging[v] /\ top[v] # 0

\* C25: a pointer-down on a title-bar button starts no drag: it leaves the
\* coordinator's target, the dragging flags, the stored pointer offsets and
\* the bounds unchanged.
C25_ButtonStartsNoDrag ==
    [][\A w \in Wins, offX \in OffsetXs, offY \in OffsetYs :
          TitleBarMouseDown(w, TRUE, offX, offY)
          => UNCHANGED <<currentlyDraggedInstance, isDragging, offsetX, offsetY,
                         maxX, maxY>>]_vars
\* a window that is not being dragged, with another pointer offset and other
\* bounds than a pointer-down would store now, while another window is dragged
C25_Witness ==
    \E w, v \in Wins :
       /\ attached[w] = "attached" /\ ~isDragging[w]
       /\ offsetY[w] = 10
       /\ maxY[w] # innerHeight - TaskbarAndTitleBar
       /\ currentlyDraggedInstance = v /\ v # w

----------------------------------------------------------------------------
(* Claims about the Close button (SpecClose) *)

\* what a click on the Close button of w leaves alone besides the menus
CloseFrame(w) ==
    /\ closeWindowEvents' = Append(closeWindowEvents, [type |-> "closeWindow", id |-> w])
    /\ UNCHANGED <<attached, left, top, isFocused, hidden>>
    /\ UNCHANGED <<state, _username, channel, messages, messageListElement, body,
                   changeChannelDisabled, socket, readyState, owner, localStorage,
                   sent>>

\* the statement of C23 as it was made: the click on the Close button emits
\* one closeWindow event with the id of the window and changes neither the
\* position, the focus flag, the dropdowns, the chat state nor the connection.
C23_Original ==
    [][\A w \in Wins :
          CloseClick(w)
          => /\ CloseFrame(w)
             /\ \A v \in Wins : OpenDropdowns(v)' = OpenDropdowns(v) /\ active'[v] = active[v]]_vars

\* C23: a click on the Close button emits exactly one closeWindow event with
\* the id of the window and does not remove the window; the position, the
\* focus flag, the chat state and the connection are unchanged, and every
\* dropdown of the window is closed by the same click, the dropdowns of the
\* other windows being unchanged.
C23_CloseOnlyNotifies ==
    [][\A w \in Wins :
          CloseClick(w)
          => /\ CloseFrame(w)
             /\ \A d \in DropdownsOf(w) : display'[w][d] = "none" /\ ~active'[w][d]
             /\ \A v \in Wins \ {w} : display'[v] = display[v] /\ active'[v] = active[v]]_vars
\* the Close button of a moved, focused chat window with an open connection
\* has been clicked and the shell has not handled the event yet
C23_Witness ==
    /\ closeWindowEvents = << [type |-> "closeWindow", id |-> "chat1"] >>
    /\ attached["chat1"] = "attached" /\ state["chat1"] = "chat"
    /\ socket["chat1"] # NoSocket /\ readyState[socket["chat1"]] = "OPEN"
    /\ left["chat1"] # 0 /\ isFocused["chat1"]
    /\ OpenDropdowns("chat1") = {}

----------------------------------------------------------------------------
(* Claims about an arriving message (SpecInbox) *)

\* C27: after handleMessage has handled a message that is no heartbeat, the
\* message is the last entry of the in-memory log and the stored log of the
\* current channel equals the in-memory log; a heartbeat changes neither the
\* in-memory log, nor the storage, nor the render target.
C27_MessageAppendedAndPersisted ==
    [][\A s \in SocketIds, message \in Inbound :
          SocketMessage(s, message)
          => LET w == owner[s]
             IN  IF message.type # "heartbeat"
                 THEN /\ messages'[w] # <<>>
                      /\ messages'[w][Len(messages'[w])] = message
                      /\ StoredLog(localStorage', channel'[w]) = messages'[w]
                 ELSE UNCHANGED <<messages, localStorage, messageListElement>>]_vars
\* a message has arrived on the second channel the window joined, after one on
\* the first channel and a heartbeat
C27_Witness ==
    /\ heartbeatSeen
    /\ channel["chat1"] = "username"
    /\ messages["chat1"] = <<Msg1>>
    /\ StoredLog(localStorage, "username") = <<Msg1>>
    /\ messageListElement["chat1"].children = Rendered(<<Msg1>>)
    /\ Len(StoredLog(localStorage, "default_channel")) >= 2

----------------------------------------------------------------------------
(* Claims about the identity of a chat window (SpecTwo) *)

\* C30: in every reachable state where the state of a chat window is chat its
\* username is not null, and every frame it sends carries the type message, a
\* username that is not null and the current channel of the window, also when
\* the other chat window changes its username.
C30_IdentityInChat ==
    /\ [](\A w \in ChatWins : state[w] = "chat" => username(Ctl, w) # Null)
    /\ [][\A w \in ChatWins, s \in SocketIds :
             SubmitMessageForm(w, "yo") /\ sent'[s] # sent[s]
             => LET frame == sent'[s][Len(sent'[s])]
                IN  /\ s = socket[w]
                    /\ sent'[s] = Append(sent[s], frame)
                    /\ frame.type = "message"
                    /\ frame.username # Null
                    /\ frame.username = username(Ctl, w)
                    /\ frame.channel = channel[w]]_vars
\* chat1 is in the chat and has sent a frame, and chat2 has entered the chat
\* and cleared the stored identity again with Change Username
C30_Witness ==
    /\ state["chat1"] = "chat" /\ socket["chat1"] # NoSocket
    /\ sent[socket["chat1"]] # <<>>
    /\ localStorage["username"] = NoItem
    /\ state["chat2"] = "username-choice" /\ _username["chat2"] = Null
    /\ \E s \in SocketIds : owner[s] = "chat2" /\ readyState[s] = "CLOSING"

----------------------------------------------------------------------------
(* Claims about a rejected assignment of the state (SpecSend) *)

\* C31: a rejected assignment changes nothing: when the assignment of an
\* unknown value to the state throws, the stored state, the connection and the
\* render target are the same as before it, and in every reachable state of an
\* opened chat window the stored state is one of username-choice,
\* channel-choice and chat.
C31_RejectedAssignmentChangesNothing ==
    /\ [][\A w \in ChatWins, value \in InvalidStates :
             AssignState(w, value) /\ consoleError' = "Error: Invalid state"
             => /\ state'[w] = state[w]
                /\ socket'[w] = socket[w]
                /\ readyState' = readyState
                /\ messageListElement'[w] = messageListElement[w]]_vars
    /\ [](\A w \in ChatWins :
             attached[w] # "new"
             => state[w] \in {"username-choice", "channel-choice", "chat"})

====
